---------------------------- MODULE Spec2Model ----------------------------
(***************************************************************************)
(* A model of rfdiffusion/igso3.py: the truncated IGSO(3) series, its      *)
(* angular score and the table builder calculate_igso3.                    *)
(*                                                                         *)
(* Tensors hold single-precision floats.  A float is a record              *)
(*   [k |-> "fin", m |-> M, e |-> E]   the number M * 2^E, |M| < 2^24,      *)
(*   [k |-> "inf", m |-> +1 or -1]     an infinity,                        *)
(*   [k |-> "nan"]                     not-a-number,                       *)
(* and every arithmetic operation rounds to 24 significant bits, overflows *)
(* to an infinity, and yields NaN for 0/0, inf-inf and 0*inf, as IEEE      *)
(* arithmetic does.  Zero carries no sign, and numbers below 2^-149 flush  *)
(* to zero.                                                                *)
(***************************************************************************)
EXTENDS Integers, Sequences, FiniteSets, TLC

(***************************************************************************)
(* Single-precision arithmetic.  The operations are functions, so that an  *)
(* argument is evaluated once, before the operation is applied to it.      *)
(***************************************************************************)
MantBits == 24
MaxExp == 127
MinExp == -149

Float == [k : {"fin", "nan", "inf"}, m : Int, e : Int]

NaN == [k |-> "nan", m |-> 0, e |-> 0]
PInf == [k |-> "inf", m |-> 1, e |-> 0]
NInf == [k |-> "inf", m |-> 0 - 1, e |-> 0]
Zero == [k |-> "fin", m |-> 0, e |-> 0]
Inf(s) == IF s < 0 THEN NInf ELSE PInf

Abs(n) == IF n < 0 THEN 0 - n ELSE n
Sgn(n) == IF n < 0 THEN 0 - 1 ELSE IF n > 0 THEN 1 ELSE 0

IsNaN(x) == x.k = "nan"
IsInf(x) == x.k = "inf"
IsFin(x) == x.k = "fin"
IsZero(x) == x.k = "fin" /\ x.m = 0

\* The least n with a < 2^n
BitLen[a \in Nat] ==
    IF a < 65536
    THEN IF a < 256
         THEN IF a < 16
              THEN (IF a < 4 THEN (IF a < 2 THEN a ELSE 2) ELSE IF a < 8 THEN 3 ELSE 4)
              ELSE (IF a < 64 THEN (IF a < 32 THEN 5 ELSE 6) ELSE IF a < 128 THEN 7 ELSE 8)
         ELSE IF a < 4096
              THEN (IF a < 1024 THEN (IF a < 512 THEN 9 ELSE 10) ELSE IF a < 2048 THEN 11 ELSE 12)
              ELSE (IF a < 16384 THEN (IF a < 8192 THEN 13 ELSE 14) ELSE IF a < 32768 THEN 15 ELSE 16)
    ELSE IF a < 16777216
         THEN IF a < 1048576
              THEN (IF a < 262144 THEN (IF a < 131072 THEN 17 ELSE 18)
                    ELSE IF a < 524288 THEN 19 ELSE 20)
              ELSE (IF a < 4194304 THEN (IF a < 2097152 THEN 21 ELSE 22)
                    ELSE IF a < 8388608 THEN 23 ELSE 24)
         ELSE IF a < 268435456
              THEN (IF a < 67108864 THEN (IF a < 33554432 THEN 25 ELSE 26)
                    ELSE IF a < 134217728 THEN 27 ELSE 28)
              ELSE (IF a < 1073741824 THEN (IF a < 536870912 THEN 29 ELSE 30) ELSE 31)

\* sign * q * 2^e with q < 2^24 normalised: overflow to an infinity,
\* underflow to zero
Pack[sign \in Int, q \in Nat, e \in Int] ==
    IF e + MantBits - 1 > MaxExp THEN Inf(sign)
    ELSE IF e + MantBits - 1 < MinExp THEN Zero
    ELSE IF q = 16777216 THEN [k |-> "fin", m |-> sign * 8388608, e |-> e + 1]
    ELSE [k |-> "fin", m |-> sign * q, e |-> e]

\* q + r / (2 half), rounded to the nearest integer, ties to even
RoundBits[q \in Nat, r \in Nat, half \in Nat, sticky \in BOOLEAN] ==
    IF r > half \/ (r = half /\ (sticky \/ q % 2 = 1)) THEN q + 1 ELSE q

RoundShift[sign \in Int, a \in Nat, sh \in Int, E \in Int, sticky \in BOOLEAN] ==
    IF sh <= 0 THEN Pack[sign, a * 2 ^ (0 - sh), E + sh]
    ELSE Pack[sign, RoundBits[a \div 2 ^ sh, a % 2 ^ sh, 2 ^ (sh - 1), sticky], E + sh]

\* The float nearest to M * 2^E (ties to even); sticky says that bits
\* below M were dropped already.
Round[M \in Int, E \in Int, sticky \in BOOLEAN] ==
    IF M = 0 THEN Zero
    ELSE RoundShift[Sgn(M), Abs(M), BitLen[Abs(M)] - MantBits, E, sticky]

Fl(M, E) == Round[M, E, FALSE]
FromInt(n) == Round[n, 0, FALSE]

FNeg(x) == IF IsNaN(x) THEN NaN ELSE [k |-> x.k, m |-> 0 - x.m, e |-> x.e]

\* the product of two 24-bit significands a1 * 4096 + a0 and b1 * 4096 + b0
MulTop[sign \in Int, e \in Int, top \in Nat, rem \in Nat] ==
    Round[sign * (top * 64 + (rem \div 262144)), e + 18, rem % 262144 # 0]

MulMid[sign \in Int, e \in Int, hi \in Nat, q \in Nat, lo0 \in Nat] ==
    MulTop[sign, e, hi + (q \div 4096), (q % 4096) * 4096 + lo0]

MulLimbs[sign \in Int, e \in Int, a1 \in Nat, a0 \in Nat, b1 \in Nat, b0 \in Nat] ==
    MulMid[sign, e, a1 * b1, a1 * b0 + a0 * b1 + ((a0 * b0) \div 4096), (a0 * b0) % 4096]

FMul[x \in Float, y \in Float] ==
    IF IsNaN(x) \/ IsNaN(y) THEN NaN
    ELSE IF IsInf(x) \/ IsInf(y)
         THEN IF x.m = 0 \/ y.m = 0 THEN NaN ELSE Inf(x.m * y.m)
    ELSE IF x.m = 0 \/ y.m = 0 THEN Zero
    ELSE MulLimbs[Sgn(x.m) * Sgn(y.m), x.e + y.e, Abs(x.m) \div 4096, Abs(x.m) % 4096,
                  Abs(y.m) \div 4096, Abs(y.m) % 4096]

AddAligned[A \in Int, sb \in Int, mag \in Nat, p \in Nat, e \in Int] ==
    Round[A + sb * (mag \div p), e, mag % p # 0]

\* x.e >= y.e, both finite and non-zero
FAddFin(x, y) ==
    IF x.e - y.e > MantBits + 2 THEN x
    ELSE AddAligned[x.m * 64, Sgn(y.m), Abs(y.m) * 64, 2 ^ (x.e - y.e), x.e - 6]

FAdd[x \in Float, y \in Float] ==
    IF IsNaN(x) \/ IsNaN(y) THEN NaN
    ELSE IF IsInf(x) THEN (IF IsInf(y) /\ y.m # x.m THEN NaN ELSE x)
    ELSE IF IsInf(y) THEN y
    ELSE IF x.m = 0 THEN y
    ELSE IF y.m = 0 THEN x
    ELSE IF x.e >= y.e THEN FAddFin(x, y) ELSE FAddFin(y, x)

FSub[x \in Float, y \in Float] == FAdd[x, FNeg(y)]

\* 28 more quotient bits, 7 at a time
LongDiv[sign \in Int, e \in Int, q \in Nat, r \in Nat, b \in Nat, n \in Nat] ==
    IF n = 0 THEN Round[sign * q, e, r # 0]
    ELSE LongDiv[sign, e, q * 128 + ((r * 128) \div b), (r * 128) % b, b, n - 1]

FDiv[x \in Float, y \in Float] ==
    IF IsNaN(x) \/ IsNaN(y) THEN NaN
    ELSE IF IsInf(x) THEN (IF IsInf(y) THEN NaN ELSE Inf(x.m * (IF y.m < 0 THEN 0 - 1 ELSE 1)))
    ELSE IF IsInf(y) THEN Zero
    ELSE IF y.m = 0 THEN (IF x.m = 0 THEN NaN ELSE Inf(x.m))
    ELSE IF x.m = 0 THEN Zero
    ELSE LongDiv[Sgn(x.m) * Sgn(y.m), x.e - y.e - 28, Abs(x.m) \div Abs(y.m),
                 Abs(x.m) % Abs(y.m), Abs(y.m), 4]

IsPos(d) == ~IsNaN(d) /\ d.m > 0

\* x < y, false when either is NaN
FLt[x \in Float, y \in Float] ==
    IF IsNaN(x) \/ IsNaN(y) THEN FALSE ELSE IsPos(FSub[y, x])

FLe[x \in Float, y \in Float] ==
    IF IsNaN(x) \/ IsNaN(y) THEN FALSE ELSE x = y \/ FLt[x, y]

FAbs(x) == IF IsNaN(x) THEN NaN ELSE [k |-> x.k, m |-> Abs(x.m), e |-> x.e]

(***************************************************************************)
(* Elementary functions of the float library (torch.sin, torch.cos,        *)
(* torch.exp, torch.sqrt, np.log10, 10 ** x): argument reduction followed  *)
(* by a polynomial, every step in single precision.                        *)
(***************************************************************************)
One == FromInt(1)
Two == FromInt(2)
Half == Fl(1, 0 - 1)
FPi == Fl(13176795, 0 - 22)
TwoOverPi == Fl(10680707, 0 - 24)
\* pi/2 = PiHalf1 + PiHalf2 + PiHalf3, the first two short enough that
\* k * PiHalf1 and k * PiHalf2 are exact for |k| < 2^12
PiHalf1 == Fl(1608, 0 - 10)
PiHalf2 == Fl(2029, 0 - 22)
PiHalf3 == Fl(10625385, 0 - 47)
InvLn2 == Fl(12102203, 0 - 23)
Ln2Hi == Fl(22713, 0 - 15)
Ln2Lo == Fl(12566158, 0 - 43)
Ln10 == Fl(9657742, 0 - 22)
Log10Of2 == Fl(10100891, 0 - 25)
Log10OfE == Fl(14572505, 0 - 25)
Sqrt2 == Fl(11863283, 0 - 23)

\* The integer nearest to a finite x
FRoundInt[x \in Float] ==
    IF x.m = 0 THEN 0
    ELSE IF x.e >= 0 THEN (IF x.e > 6 THEN Sgn(x.m) * 2 ^ 30 ELSE x.m * 2 ^ x.e)
    ELSE IF 0 - x.e > MantBits THEN 0
    ELSE Sgn(x.m) * ((Abs(x.m) + 2 ^ (0 - x.e - 1)) \div 2 ^ (0 - x.e))

\* coefficients 1/n! of the sine, cosine and exponential series
InvFact3 == FDiv[One, FromInt(6)]
InvFact4 == FDiv[One, FromInt(24)]
InvFact5 == FDiv[One, FromInt(120)]
InvFact6 == FDiv[One, FromInt(720)]
InvFact7 == FDiv[One, FromInt(5040)]
InvFact8 == FDiv[One, FromInt(40320)]
InvFact9 == FDiv[One, FromInt(362880)]
InvFact10 == FDiv[One, FromInt(3628800)]

\* sin r and cos r for |r| <= pi/4, z = r * r
SinPoly[r \in Float, z \in Float] ==
    FMul[r, FSub[One, FMul[z, FSub[InvFact3, FMul[z, FSub[InvFact5,
        FMul[z, FSub[InvFact7, FMul[z, InvFact9]]]]]]]]]

CosPoly[z \in Float] ==
    FSub[One, FMul[z, FSub[Half, FMul[z, FSub[InvFact4, FMul[z, FSub[InvFact6,
        FMul[z, FSub[InvFact8, FMul[z, InvFact10]]]]]]]]]]

\* x - k * pi/2, the product taken in three exact or nearly exact parts
ReducePiHalf[x \in Float, kf \in Float] ==
    FSub[FSub[FSub[x, FMul[kf, PiHalf1]], FMul[kf, PiHalf2]], FMul[kf, PiHalf3]]

\* sin(q * pi/2 + r) for |r| <= pi/4
SinQuadrant[q \in Nat, r \in Float] ==
    CASE q = 0 -> SinPoly[r, FMul[r, r]]
      [] q = 1 -> CosPoly[FMul[r, r]]
      [] q = 2 -> FNeg(SinPoly[r, FMul[r, r]])
      [] q = 3 -> FNeg(CosPoly[FMul[r, r]])

SinReduced[x \in Float, k \in Int] == SinQuadrant[k % 4, ReducePiHalf[x, FromInt(k)]]

FSin[x \in Float] ==
    IF ~IsFin(x) THEN NaN ELSE SinReduced[x, FRoundInt[FMul[x, TwoOverPi]]]

\* cos x = sin(x + pi/2): the same reduction, one quadrant on
CosReduced[x \in Float, k \in Int] == SinQuadrant[(k + 1) % 4, ReducePiHalf[x, FromInt(k)]]

FCos[x \in Float] ==
    IF ~IsFin(x) THEN NaN ELSE CosReduced[x, FRoundInt[FMul[x, TwoOverPi]]]

ExpPoly[r \in Float] ==
    FAdd[One, FMul[r, FAdd[One, FMul[r, FAdd[Half, FMul[r, FAdd[InvFact3,
        FMul[r, FAdd[InvFact4, FMul[r, FAdd[InvFact5, FMul[r, FAdd[InvFact6,
        FMul[r, InvFact7]]]]]]]]]]]]]]

\* p * 2^k
Scale2[p \in Float, k \in Int] == Round[p.m, p.e + k, FALSE]

ExpReduced[x \in Float, k \in Int, kf \in Float] ==
    Scale2[ExpPoly[FSub[FSub[x, FMul[kf, Ln2Hi]], FMul[kf, Ln2Lo]]], k]

ExpRange[x \in Float, k \in Int] == ExpReduced[x, k, FromInt(k)]

MinusUnderflow == FromInt(0 - 104)
PlusOverflow == FromInt(89)

\* e^x: overflows to +inf above 89 and underflows to 0 below -104
FExp[x \in Float] ==
    IF IsNaN(x) THEN NaN
    ELSE IF IsInf(x) THEN (IF x.m > 0 THEN PInf ELSE Zero)
    ELSE IF FLt[PlusOverflow, x] THEN PInf
    ELSE IF FLt[x, MinusUnderflow] THEN Zero
    ELSE ExpRange[x, FRoundInt[FMul[x, InvLn2]]]

\* ln z for z in [1/sqrt 2, sqrt 2], by the series of 2 atanh u, u = (z-1)/(z+1)
AtanhPoly[u \in Float, w \in Float] ==
    FMul[Two, FMul[u, FAdd[One, FMul[w, FAdd[FDiv[One, FromInt(3)],
        FMul[w, FAdd[FDiv[One, FromInt(5)], FMul[w, FAdd[FDiv[One, FromInt(7)],
        FMul[w, FDiv[One, FromInt(9)]]]]]]]]]]]

LnU[u \in Float] == AtanhPoly[u, FMul[u, u]]

LnPoly[z \in Float] == LnU[FDiv[FSub[z, One], FAdd[z, One]]]

\* log10 of z * 2^n
Log10Parts[z \in Float, n \in Int] ==
    FAdd[FMul[FromInt(n), Log10Of2], FMul[LnPoly[z], Log10OfE]]

\* log10 x: NaN for x < 0, -inf for x = 0.  np.log10 works in double precision
\* and linspace rounds its result to single; taken in single precision here,
\* which differs from that by a few units in the last place.
FLog10[x \in Float] ==
    IF IsNaN(x) THEN NaN
    ELSE IF x.m < 0 THEN NaN
    ELSE IF IsInf(x) THEN PInf
    ELSE IF x.m = 0 THEN NInf
    ELSE IF FLt[Sqrt2, [k |-> "fin", m |-> x.m, e |-> 1 - MantBits]]
    THEN Log10Parts[[k |-> "fin", m |-> x.m, e |-> 0 - MantBits], x.e + MantBits]
    ELSE Log10Parts[[k |-> "fin", m |-> x.m, e |-> 1 - MantBits], x.e + MantBits - 1]

\* 10 ** x
FPow10[x \in Float] == FExp[FMul[x, Ln10]]

\* sqrt x by Newton's iteration: NaN for x < 0
Newton[x \in Float, y \in Float, n \in Nat] ==
    IF n = 0 THEN y ELSE Newton[x, FMul[Half, FAdd[y, FDiv[x, y]]], n - 1]

FSqrt[x \in Float] ==
    IF IsNaN(x) THEN NaN
    ELSE IF x.m < 0 THEN NaN
    ELSE IF IsInf(x) \/ x.m = 0 THEN x
    ELSE Newton[x, Fl(1, (x.e + MantBits) \div 2), 6]

(***************************************************************************)
(* Tensors.  A one-dimensional tensor is a sequence of floats, a matrix a  *)
(* sequence of rows.  A tensor that can be shared between a caller and a   *)
(* callee lives in the heap `tensors', a sequence of objects               *)
(* [data, requires_grad], and is named by its index there.                 *)
(***************************************************************************)
\* the sum of the first n entries of row, added left to right
SumSeq[row \in Seq(Float), n \in Nat] ==
    IF n = 0 THEN Zero ELSE FAdd[SumSeq[row, n - 1], row[n]]

\* A variant of cumsum that forgets to accumulate, for checking that the
\* table's cdf depends on the running sum.
cumsum_elementwise(row) == row

\* torch.cumsum along a row
cumsum(row) == [j \in 1..Len(row) |-> SumSeq[row, j]]

\* A variant of linspace that leaves the end point out (the spacing of
\* arange), for checking that the grid's spacing depends on linspace.
linspace_open(start, end, steps) ==
    [i \in 1..steps |->
        FAdd[start, FMul[FDiv[FSub[end, start], FromInt(steps)], FromInt(i - 1)]]]

\* torch.linspace(start, end, steps): start alone for one step, and
\* otherwise the first half counted up from start, the rest down from end
linspace(start, end, steps) ==
    IF steps = 1 THEN <<start>>
    ELSE [i \in 1..steps |->
            IF i - 1 < steps \div 2
            THEN FAdd[start, FMul[FDiv[FSub[end, start], FromInt(steps - 1)],
                                  FromInt(i - 1)]]
            ELSE FSub[end, FMul[FDiv[FSub[end, start], FromInt(steps - 1)],
                                FromInt(steps - i)]]]

\* A variant of x[1:] that keeps the first entry, for checking that the
\* range of the grid depends on the slice.
Tail0(x) == x

\* x[1:]
Tail1(x) == IF Len(x) = 0 THEN <<>> ELSE Tail(x)

\* x.clone(): a new object with the same data: <<heap, reference>>
clone(heap, ref) ==
    <<Append(heap, [data |-> heap[ref].data, requires_grad |-> FALSE]), Len(heap) + 1>>

\* x.requires_grad_(): sets the flag of the object itself
requires_grad_(heap, ref) == [heap EXCEPT ![ref].requires_grad = TRUE]

(***************************************************************************)
(* The truncated series                                                    *)
(***************************************************************************)
L_default == 2000

\* -ls * (ls + 1) * t / 2
ExpArg[l \in Nat, t \in Float] == FDiv[FMul[FromInt(0 - l * (l + 1)), t], Two]

\* (2 * ls + 1) * torch.exp(-ls * (ls + 1) * t / 2)
Coef[l \in Nat, t \in Float] == FMul[FromInt(2 * l + 1), FExp[ExpArg[l, t]]]

\* omega[:, None] * (ls + 1 / 2)
SinArg[l \in Nat, w \in Float] == FMul[w, Fl(2 * l + 1, 0 - 1)]

\* For t > 0 the argument of exp decreases with l, so once exp has
\* underflowed to 0 at l, the coefficient is 0 at every later l as well.
TailIsZero[l \in Nat, t \in Float] ==
    IsFin(t) /\ t.m > 0 /\ FLt[ExpArg[l, t], MinusUnderflow]

\* one term of the numerator: the coefficient a times sin(omega (l + 1/2))
NumTermOf[a \in Float, l \in Nat, w \in Float] ==
    IF IsNaN(a) THEN NaN
    ELSE IF IsZero(a) /\ IsFin(w) THEN Zero
    ELSE FMul[a, FSin[SinArg[l, w]]]

NumTerm[l \in Nat, w \in Float, t \in Float] == NumTermOf[Coef[l, t], l, w]

\* .sum(dim=-1) of the terms lo <= l < hi, added pairwise
SeriesSum[lo \in Nat, hi \in Nat, w \in Float, t \in Float, den \in Float] ==
    IF hi <= lo THEN Zero
    ELSE IF TailIsZero[lo, t] /\ IsFin(w) /\ IsFin(den) /\ den.m # 0 THEN Zero
    ELSE IF hi - lo = 1 THEN FDiv[NumTerm[lo, w, t], den]
    ELSE FAdd[SeriesSum[lo, (lo + hi) \div 2, w, t, den],
              SeriesSum[(lo + hi) \div 2, hi, w, t, den]]

\* f_igso3 at one angle w
f_igso3_at[w \in Float, t \in Float, L \in Nat] ==
    SeriesSum[0, L, w, t, FSin[FDiv[w, Two]]]

f_igso3(omega, t, L) == [i \in 1..Len(omega) |-> f_igso3_at[omega[i], t, L]]

\* igso3_density_angle: f * (1 - cos omega) / pi
igso3_density_angle(omega, t, L) ==
    [i \in 1..Len(omega) |->
        FDiv[FMul[f_igso3_at[omega[i], t, L], FSub[One, FCos[omega[i]]]], FPi]]

(***************************************************************************)
(* The gradient of sum(log f) that torch.autograd.grad computes, by the    *)
(* backward rules of the operations of f_igso3: for out = num / den,       *)
(* grad_num = g / den and grad_den = -g * num / (den * den); for           *)
(* num = a * sin(arg), grad_arg = grad_num * a * cos(arg); the gradients   *)
(* of the broadcast operands are summed over l.  gf = 1 / f is the         *)
(* gradient that log passes back.                                          *)
(***************************************************************************)
\* <<gradient through omega * (l + 1/2), gradient into den>> of term l,
\* with a the coefficient, arg the argument of the sine and gnum = gf / den
BackTermOf[l \in Nat, w \in Float, den \in Float, gf \in Float, a \in Float, arg \in Float, gnum \in Float] ==
    IF IsZero(a) /\ IsFin(w) /\ IsFin(gnum) /\ IsFin(gf) /\ IsFin(den) /\ den.m # 0
    THEN <<Zero, Zero>>
    ELSE <<FMul[FMul[FMul[gnum, a], FCos[arg]], Fl(2 * l + 1, 0 - 1)],
           FDiv[FMul[FNeg(gf), FMul[a, FSin[arg]]], FMul[den, den]]>>

BackTerm[l \in Nat, w \in Float, t \in Float, den \in Float, gf \in Float] ==
    BackTermOf[l, w, den, gf, Coef[l, t], SinArg[l, w], FDiv[gf, den]]

PairAdd[x \in Float \X Float, y \in Float \X Float] ==
    <<FAdd[x[1], y[1]], FAdd[x[2], y[2]]>>

BackSum[lo \in Nat, hi \in Nat, w \in Float, t \in Float, den \in Float, gf \in Float] ==
    IF hi <= lo THEN <<Zero, Zero>>
    ELSE IF TailIsZero[lo, t] /\ IsFin(w) /\ IsFin(gf) /\ IsFin(FDiv[gf, den])
            /\ IsFin(den) /\ den.m # 0
         THEN <<Zero, Zero>>
    ELSE IF hi - lo = 1 THEN BackTerm[lo, w, t, den, gf]
    ELSE PairAdd[BackSum[lo, (lo + hi) \div 2, w, t, den, gf],
                 BackSum[(lo + hi) \div 2, hi, w, t, den, gf]]

\* the two uses of omega add their gradients; omega / 2 passes back g / 2
BackOmega[g \in Float \X Float, w \in Float] ==
    FAdd[g[1], FDiv[FMul[g[2], FCos[FDiv[w, Two]]], Two]]

\* the forward value f and d log f / d omega at one angle w
grad_from[w \in Float, t \in Float, L \in Nat, den \in Float, f \in Float] ==
    [f |-> f, grad |-> BackOmega[BackSum[0, L, w, t, den, FDiv[One, f]], w]]

grad_den[w \in Float, t \in Float, L \in Nat, den \in Float] ==
    grad_from[w, t, L, den, SeriesSum[0, L, w, t, den]]

grad_at[w \in Float, t \in Float, L \in Nat] == grad_den[w, t, L, FSin[FDiv[w, Two]]]

\* A variant of grad_leaf without the clone: the leaf is the caller's own
\* tensor.  For checking that the frame of d_logf_d_omega depends on the copy.
grad_leaf_alias(heap, ref) == <<heap, ref>>

\* omega.clone(): the tensor d_logf_d_omega differentiates is a copy of
\* its argument
grad_leaf(heap, ref) == clone(heap, ref)

\* the leaf made to require its gradient: <<heap, reference>>
grad_input(leaf) == <<requires_grad_(leaf[1], leaf[2]), leaf[2]>>

\* log_f = torch.log(f_igso3(omega, t, L)) and the gradient of its sum, on
\* the data w of the leaf: rows[i] is [f, grad] at w[i]
grad_rows(w, t, L) == [i \in 1..Len(w) |-> grad_at[w[i], t, L]] \o <<>>

\* d_logf_d_omega(omega, t, L) on the heap object ref: rows[i].grad is the
\* gradient and rows[i].f the density whose logarithm was taken; heap is
\* the heap as the caller finds it when the call returns (the callee's own
\* objects are gone)
d_logf_d_omega(heap, ref, t, L) ==
    [rows |-> grad_rows(grad_input(grad_leaf(heap, ref))[1]
                            [grad_input(grad_leaf(heap, ref))[2]].data, t, L),
     heap |-> SubSeq(grad_input(grad_leaf(heap, ref))[1], 1, Len(heap))]

\* the value d_logf_d_omega returns, and the argument its log had
grad_value(d) == [i \in 1..Len(d.rows) |-> d.rows[i].grad]
grad_log_arg(d) == [i \in 1..Len(d.rows) |-> d.rows[i].f]

(***************************************************************************)
(* Geometric operations on SO(3).  A batch is a sequence of 3x3 matrices   *)
(* (or of 3-vectors); a matrix is a sequence of three rows.                *)
(***************************************************************************)
Idx3 == 1..3

\* hat map: hat_v[0,1], hat_v[0,2], hat_v[1,2] = -v[2], v[1], -v[0], then
\* hat_v + -hat_v.transpose
hat_upper(v) ==
    <<<<Zero, FNeg(v[3]), v[2]>>, <<Zero, Zero, FNeg(v[1])>>, <<Zero, Zero, Zero>>>>

hat_one(u) == [i \in Idx3 |-> [j \in Idx3 |-> FAdd[u[i][j], FNeg(u[j][i])]]]

hat(v) == [n \in 1..Len(v) |-> hat_one(hat_upper(v[n]))]

\* The rotation vector scipy gives for a rotation by a multiple of a
\* quarter turn about a coordinate axis (entries 0, 1, -1): the angle from
\* the trace, the axis from the antisymmetric part, or from the diagonal
\* for a half turn.
Nxt(i) == (i % 3) + 1

Trace(M) == FAdd[FAdd[M[1][1], M[2][2]], M[3][3]]

RotVec(M) ==
    IF Trace(M) = FromInt(3) THEN <<Zero, Zero, Zero>>
    ELSE IF Trace(M) = One
    THEN [i \in Idx3 |->
            FMul[FDiv[FPi, Two],
                 FDiv[FSub[M[Nxt(Nxt(i))][Nxt(i)], M[Nxt(i)][Nxt(Nxt(i))]], Two]]]
    ELSE [i \in Idx3 |-> IF M[i][i] = One THEN FPi ELSE Zero]

Log(R) == [n \in 1..Len(R) |-> RotVec(R[n])]

\* log(R) = hat(Log(R))
log(R) == hat(Log(R))

FrobeniusNorm(M) ==
    FSqrt[SumSeq[[k \in 1..9 |-> FMul[M[((k - 1) \div 3) + 1][((k - 1) % 3) + 1],
                                      M[((k - 1) \div 3) + 1][((k - 1) % 3) + 1]]], 9]]

\* Omega(R) = norm(log(R)) / sqrt(2)
Omega(R) == [n \in 1..Len(R) |-> FDiv[FrobeniusNorm(log(R)[n]), Sqrt2]]

MatMul(A, B) ==
    [i \in Idx3 |-> [k \in Idx3 |->
        SumSeq[[j \in Idx3 |-> FMul[A[i][j], B[j][k]]], 3]]]

\* igso3_density(Rt, t, L)
igso3_density(Rt, t, L) == f_igso3(Omega(Rt), t, L)

\* R log(R) / omega[:, None, None] * d_logf_d_omega(omega, t, L)[:, None, None]
score_of(R, omega, g) ==
    [n \in 1..Len(R) |-> [i \in Idx3 |-> [k \in Idx3 |->
        FMul[FDiv[MatMul(R[n], log(R)[n])[i][k], omega[n]], g[n]]]]]

\* the score, with the angles and the argument of the logarithm
\* what d_logf_d_omega gives back
GradResult ==
    [rows : Seq([f : Float, grad : Float]),
     heap : Seq([data : Seq(Float), requires_grad : BOOLEAN])]

score_with[R \in Seq(Seq(Seq(Float))), omega \in Seq(Float), d \in GradResult] ==
    [value |-> score_of(R, omega, grad_value(d)), f |-> grad_log_arg(d), omega |-> omega]

score_at[R \in Seq(Seq(Seq(Float))), omega \in Seq(Float), t \in Float, L \in Nat] ==
    score_with[R, omega,
               d_logf_d_omega(<<[data |-> omega, requires_grad |-> FALSE]>>, 1, t, L)]

\* igso3_score(R, t, L): omega = Omega(R), then the score
igso3_score(R, t, L) == score_at[R, Omega(R) \o <<>>, t, L]

(***************************************************************************)
(* The calls the model makes                                               *)
(***************************************************************************)
MaxNumSigma == 2
MaxNumOmega == 2
MaxL == 3

Ratio(p, q) == FDiv[FromInt(p), FromInt(q)]

\* <<min_sigma, max_sigma>>: two valid ranges, a negative min_sigma, and
\* max_sigma <= min_sigma
SigmaRanges ==
    {<<Ratio(1, 2), One>>, <<One, FromInt(10)>>,
     <<FromInt(0 - 1), One>>, <<One, Ratio(1, 2)>>}

\* a valid range far below what 2000 terms resolve
SmallSigmaRange == <<Ratio(1, 2000), Ratio(1, 1000)>>

OmegaInputs == {<<Zero>>, <<FPi>>, <<FDiv[FPi, Two], FPi>>}
TInputs == {One, Ratio(1, 4)}

Identity3 == <<<<One, Zero, Zero>>, <<Zero, One, Zero>>, <<Zero, Zero, One>>>>
QuarterTurnZ == <<<<Zero, FNeg(One), Zero>>, <<One, Zero, Zero>>, <<Zero, Zero, One>>>>
HalfTurnZ == <<<<FNeg(One), Zero, Zero>>, <<Zero, FNeg(One), Zero>>, <<Zero, Zero, One>>>>
RotationInputs == {<<Identity3>>, <<QuarterTurnZ>>, <<HalfTurnZ>>}

VARIABLES
    pc,               \* where the call stands
    call,             \* the function called and its arguments
    tensors,          \* the heap of shared tensors
    discrete_omega,   \* calculate_igso3: reference of the omega grid, 0 before it is built
    discrete_sigma,
    pdf_vals,
    cdf_vals,
    score_norm,
    exp_score_norms,
    outcome,          \* how the call ended, and what it returned
    passed,           \* the angles at which the call has evaluated the series
    log_arg           \* the densities whose logarithm d_logf_d_omega took

vars == <<pc, call, tensors, discrete_omega, discrete_sigma, pdf_vals, cdf_vals,
          score_norm, exp_score_norms, outcome, passed, log_arg>>

locals == <<tensors, discrete_omega, discrete_sigma, pdf_vals, cdf_vals,
            score_norm, exp_score_norms>>

NoCall ==
    [op |-> "none", num_sigma |-> 0, num_omega |-> 0, min_sigma |-> Zero,
     max_sigma |-> Zero, omega |-> <<>>, t |-> Zero, L |-> 0, R |-> <<>>]

NoOutcome == [kind |-> "none", error |-> "", value |-> <<>>]
Returned(v) == [kind |-> "returned", error |-> "", value |-> v]
Raised(e) == [kind |-> "raised", error |-> e, value |-> <<>>]

Range(x) == {x[i] : i \in 1..Len(x)}

Init ==
    /\ pc = "idle"
    /\ call = NoCall
    /\ tensors = <<>>
    /\ discrete_omega = 0
    /\ discrete_sigma = <<>>
    /\ pdf_vals = <<>>
    /\ cdf_vals = <<>>
    /\ score_norm = <<>>
    /\ exp_score_norms = <<>>
    /\ outcome = NoOutcome
    /\ passed = {}
    /\ log_arg = <<>>

(***************************************************************************)
(* Direct calls of the series functions                                    *)
(***************************************************************************)
Call_f_igso3(omega, t, L) ==
    /\ pc = "idle"
    /\ call' = [NoCall EXCEPT !.op = "f_igso3", !.omega = omega, !.t = t, !.L = L]
    /\ passed' = Range(omega)
    /\ outcome' = Returned(f_igso3(omega, t, L))
    /\ pc' = "done"
    /\ UNCHANGED <<locals, log_arg>>

Call_igso3_density_angle(omega, t, L) ==
    /\ pc = "idle"
    /\ call' = [NoCall EXCEPT !.op = "igso3_density_angle", !.omega = omega, !.t = t, !.L = L]
    /\ passed' = Range(omega)
    /\ outcome' = Returned(igso3_density_angle(omega, t, L))
    /\ pc' = "done"
    /\ UNCHANGED <<locals, log_arg>>

Call_d_logf_d_omega(omega, t, L) ==
    /\ pc = "idle"
    /\ call' = [NoCall EXCEPT !.op = "d_logf_d_omega", !.omega = omega, !.t = t, !.L = L]
    /\ passed' = Range(omega)
    /\ \E d \in {d_logf_d_omega(<<[data |-> omega, requires_grad |-> FALSE]>>, 1, t, L)} :
          /\ tensors' = d.heap
          /\ log_arg' = <<grad_log_arg(d)>>
          /\ outcome' = Returned(grad_value(d))
    /\ pc' = "done"
    /\ UNCHANGED <<discrete_omega, discrete_sigma, pdf_vals, cdf_vals, score_norm,
                   exp_score_norms>>

Call_igso3_density(R, t, L) ==
    /\ pc = "idle"
    /\ call' = [NoCall EXCEPT !.op = "igso3_density", !.R = R, !.t = t, !.L = L]
    /\ passed' = Range(Omega(R))
    /\ outcome' = Returned(igso3_density(R, t, L))
    /\ pc' = "done"
    /\ UNCHANGED <<locals, log_arg>>

Call_igso3_score(R, t, L) ==
    /\ pc = "idle"
    /\ call' = [NoCall EXCEPT !.op = "igso3_score", !.R = R, !.t = t, !.L = L]
    /\ \E sc \in {igso3_score(R, t, L)} :
          /\ passed' = Range(sc.omega)
          /\ log_arg' = <<sc.f>>
          /\ outcome' = Returned(sc.value)
    /\ pc' = "done"
    /\ UNCHANGED locals

(***************************************************************************)
(* calculate_igso3, one statement at a time                                *)
(***************************************************************************)
Call_calculate_igso3(num_sigma, num_omega, min_sigma, max_sigma) ==
    /\ pc = "idle"
    /\ call' = [NoCall EXCEPT !.op = "calculate_igso3", !.num_sigma = num_sigma,
                              !.num_omega = num_omega, !.min_sigma = min_sigma,
                              !.max_sigma = max_sigma, !.L = L_default]
    /\ pc' = "omega"
    /\ UNCHANGED <<locals, outcome, passed, log_arg>>

\* A variant of omega_grid without the slice, for checking that the shapes
\* of the table depend on it.
omega_grid_closed(num_omega) == linspace(Zero, FPi, num_omega + 1) \o <<>>

\* discrete_omega = torch.linspace(0, np.pi, num_omega + 1)[1:]
omega_grid(num_omega) == Tail1(linspace(Zero, FPi, num_omega + 1))

BuildOmega ==
    /\ pc = "omega"
    /\ tensors' = <<[data |-> omega_grid(call.num_omega), requires_grad |-> FALSE]>>
    /\ discrete_omega' = 1
    /\ pc' = "sigma"
    /\ UNCHANGED <<call, discrete_sigma, pdf_vals, cdf_vals, score_norm,
                   exp_score_norms, outcome, passed, log_arg>>

\* A variant of sigma_exponents without the slice, for checking that the
\* range of the sigma grid depends on it.
sigma_exponents_closed(num_sigma, min_sigma, max_sigma) ==
    linspace(FLog10[min_sigma], FLog10[max_sigma], num_sigma + 1)

\* discrete_sigma = 10 ** torch.linspace(log10(min_sigma), log10(max_sigma), num_sigma + 1)[1:]
sigma_exponents(num_sigma, min_sigma, max_sigma) ==
    Tail1(linspace(FLog10[min_sigma], FLog10[max_sigma], num_sigma + 1))

sigma_grid(num_sigma, min_sigma, max_sigma) ==
    [n \in 1..num_sigma |-> FPow10[sigma_exponents(num_sigma, min_sigma, max_sigma)[n]]]

BuildSigma ==
    /\ pc = "sigma"
    /\ discrete_sigma' = sigma_grid(call.num_sigma, call.min_sigma, call.max_sigma)
    /\ pc' = "pdf"
    /\ UNCHANGED <<call, tensors, discrete_omega, pdf_vals, cdf_vals, score_norm,
                   exp_score_norms, outcome, passed, log_arg>>

\* sigma ** 2
variance(sigma) == FMul[sigma, sigma]

\* one turn of [igso3_density_angle(discrete_omega, sigma**2) for sigma in discrete_sigma]
PdfRow ==
    /\ pc = "pdf"
    /\ Len(pdf_vals) < Len(discrete_sigma)
    /\ pdf_vals' = Append(pdf_vals,
                          igso3_density_angle(tensors[discrete_omega].data,
                                              variance(discrete_sigma[Len(pdf_vals) + 1]),
                                              L_default))
    /\ passed' = passed \cup Range(tensors[discrete_omega].data)
    /\ UNCHANGED <<pc, call, tensors, discrete_omega, discrete_sigma, cdf_vals,
                   score_norm, exp_score_norms, outcome, log_arg>>

\* torch.cumsum(pdf_vals, dim=1) / num_omega * torch.pi
cdf_of(pdf, num_omega) ==
    [s \in 1..Len(pdf) |->
        [k \in 1..Len(pdf[s]) |->
            FMul[FDiv[cumsum(pdf[s])[k], FromInt(num_omega)], FPi]]]

\* torch.vstack of the finished list (it raises on an empty list), then the cdf
StackPdf ==
    /\ pc = "pdf"
    /\ Len(pdf_vals) = Len(discrete_sigma)
    /\ IF Len(pdf_vals) = 0
       THEN /\ outcome' = Raised("RuntimeError")
            /\ pc' = "done"
            /\ UNCHANGED cdf_vals
       ELSE /\ cdf_vals' = cdf_of(pdf_vals, call.num_omega)
            /\ pc' = "score"
            /\ UNCHANGED outcome
    /\ UNCHANGED <<call, tensors, discrete_omega, discrete_sigma, pdf_vals, score_norm,
                   exp_score_norms, passed, log_arg>>

\* one turn of [d_logf_d_omega(discrete_omega, sigma**2) for sigma in discrete_sigma]
ScoreRow ==
    /\ pc = "score"
    /\ Len(score_norm) < Len(discrete_sigma)
    /\ \E d \in {d_logf_d_omega(tensors, discrete_omega,
                                variance(discrete_sigma[Len(score_norm) + 1]), L_default)} :
          /\ score_norm' = Append(score_norm, grad_value(d))
          /\ tensors' = d.heap
          /\ log_arg' = Append(log_arg, grad_log_arg(d))
    /\ passed' = passed \cup Range(tensors[discrete_omega].data)
    /\ UNCHANGED <<pc, call, discrete_omega, discrete_sigma, pdf_vals, cdf_vals,
                   exp_score_norms, outcome>>

\* torch.sqrt(torch.sum(score_norm**2 * pdf_vals, dim=1) / torch.sum(pdf_vals, dim=1))
exp_score_norms_of(score, pdf) ==
    [s \in 1..Len(score) |->
        FSqrt[FDiv[SumSeq[[k \in 1..Len(score[s]) |->
                              FMul[FMul[score[s][k], score[s][k]], pdf[s][k]]],
                          Len(score[s])],
                   SumSeq[pdf[s], Len(pdf[s])]]]]

StackScore ==
    /\ pc = "score"
    /\ Len(score_norm) = Len(discrete_sigma)
    /\ exp_score_norms' = exp_score_norms_of(score_norm, pdf_vals)
    /\ pc' = "return"
    /\ UNCHANGED <<call, tensors, discrete_omega, discrete_sigma, pdf_vals, cdf_vals,
                   score_norm, outcome, passed, log_arg>>

\* the returned mapping; .numpy() raises on a tensor that requires grad
Return ==
    /\ pc = "return"
    /\ outcome' = IF tensors[discrete_omega].requires_grad
                  THEN Raised("RuntimeError")
                  ELSE Returned([cdf |-> cdf_vals,
                                 score_norm |-> score_norm,
                                 exp_score_norms |-> exp_score_norms,
                                 discrete_omega |-> tensors[discrete_omega].data,
                                 discrete_sigma |-> discrete_sigma])
    /\ pc' = "done"
    /\ UNCHANGED <<call, locals, passed, log_arg>>

Next ==
    \/ \E omega \in OmegaInputs, t \in TInputs, L \in 1..MaxL : Call_f_igso3(omega, t, L)
    \/ \E omega \in OmegaInputs, t \in TInputs, L \in 1..MaxL :
          Call_igso3_density_angle(omega, t, L)
    \/ \E omega \in OmegaInputs, t \in TInputs, L \in 1..MaxL :
          Call_d_logf_d_omega(omega, t, L)
    \/ \E R \in RotationInputs, t \in TInputs, L \in 1..MaxL : Call_igso3_density(R, t, L)
    \/ \E R \in RotationInputs, t \in TInputs, L \in 1..MaxL : Call_igso3_score(R, t, L)
    \/ \E num_sigma \in 0..MaxNumSigma, num_omega \in 0..MaxNumOmega, r \in SigmaRanges :
          Call_calculate_igso3(num_sigma, num_omega, r[1], r[2])
    \/ Call_calculate_igso3(1, 2, SmallSigmaRange[1], SmallSigmaRange[2])
    \/ BuildOmega
    \/ BuildSigma
    \/ PdfRow
    \/ StackPdf
    \/ ScoreRow
    \/ StackScore
    \/ Return

Spec == Init /\ [][Next]_vars

(***************************************************************************)
(* Properties                                                              *)
(***************************************************************************)
InTable == call.op = "calculate_igso3"

DirectOps == {"f_igso3", "igso3_density_angle", "d_logf_d_omega", "igso3_density",
              "igso3_score"}

\* num_sigma < 1, num_omega < 1, min_sigma <= 0 or max_sigma <= min_sigma
Degenerate ==
    /\ InTable
    /\ \/ call.num_sigma < 1
       \/ call.num_omega < 1
       \/ ~IsPos(call.min_sigma)
       \/ ~FLt[call.min_sigma, call.max_sigma]

ValidSigmas == InTable /\ IsPos(call.min_sigma) /\ FLt[call.min_sigma, call.max_sigma]

TableReturned == InTable /\ pc = "done" /\ outcome.kind = "returned"

\* x and y agree up to the rounding of a few single-precision operations
Near(x, y) == FLe[FAbs(FSub[x, y]), FMul[FAbs(y), Fl(1, 0 - 18)]]

\* the same float, or both NaN, or both finite and near
Same(x, y) == x = y \/ (IsNaN(x) /\ IsNaN(y)) \/ (IsFin(x) /\ IsFin(y) /\ Near(x, y))

\* a density log can take: finite and positive
Healthy(f) == IsFin(f) /\ f.m > 0

\* C1: a call of calculate_igso3 with degenerate parameters computes no grid,
\* pdf, cdf or score array, returns no table, and ends with the error
\* InvalidParameter.
C1_DegenerateRejected ==
    Degenerate =>
        /\ tensors = <<>> /\ discrete_omega = 0 /\ discrete_sigma = <<>>
        /\ pdf_vals = <<>> /\ cdf_vals = <<>> /\ score_norm = <<>>
        /\ exp_score_norms = <<>>
        /\ outcome.kind # "returned"
        /\ (pc = "done" => outcome = Raised("InvalidParameter"))

\* C2: with num_sigma >= 1, num_omega >= 1 and valid sigmas the call returns
\* a mapping with exactly the keys cdf, score_norm, exp_score_norms,
\* discrete_omega and discrete_sigma; cdf and score_norm have num_sigma rows
\* of num_omega entries, exp_score_norms and discrete_sigma num_sigma
\* entries, discrete_omega num_omega entries.
C2_TableShapes ==
    (InTable /\ pc = "done" /\ ValidSigmas /\ call.num_sigma >= 1 /\ call.num_omega >= 1) =>
        /\ outcome.kind = "returned"
        /\ DOMAIN outcome.value =
              {"cdf", "score_norm", "exp_score_norms", "discrete_omega", "discrete_sigma"}
        /\ Len(outcome.value.cdf) = call.num_sigma
        /\ Len(outcome.value.score_norm) = call.num_sigma
        /\ \A s \in 1..call.num_sigma :
              /\ Len(outcome.value.cdf[s]) = call.num_omega
              /\ Len(outcome.value.score_norm[s]) = call.num_omega
        /\ Len(outcome.value.exp_score_norms) = call.num_sigma
        /\ Len(outcome.value.discrete_sigma) = call.num_sigma
        /\ Len(outcome.value.discrete_omega) = call.num_omega

\* a table of two sigmas and two angles has been returned
C2_Witness ==
    /\ TableReturned /\ ValidSigmas
    /\ call.num_sigma = 2 /\ call.num_omega = 2
    /\ Len(outcome.value.cdf) = 2 /\ Len(outcome.value.cdf[2]) = 2

\* C3 as stated, for the tables of valid calls: every value of the returned
\* discrete_omega is strictly between 0 and pi.
C3_StrictlyInside ==
    (TableReturned /\ ~Degenerate) =>
        \A k \in 1..Len(outcome.value.discrete_omega) :
            /\ IsPos(outcome.value.discrete_omega[k])
            /\ FLt[outcome.value.discrete_omega[k], FPi]

\* C3 amended: every value of the returned discrete_omega is greater than 0
\* and at most pi (the single-precision pi), and the last value is pi.
C3_InsideOrPi ==
    TableReturned =>
        /\ \A k \in 1..Len(outcome.value.discrete_omega) :
              /\ IsPos(outcome.value.discrete_omega[k])
              /\ FLe[outcome.value.discrete_omega[k], FPi]
        /\ call.num_omega >= 1 =>
              outcome.value.discrete_omega[Len(outcome.value.discrete_omega)] = FPi

\* a returned grid of two angles: one inside the interval, the last one pi
C3_Witness ==
    /\ TableReturned
    /\ Len(outcome.value.discrete_omega) = 2
    /\ FLt[outcome.value.discrete_omega[1], FPi]
    /\ outcome.value.discrete_omega[2] = FPi

\* C4 as stated, for the tables of valid calls: for 0 < min_sigma < max_sigma
\* the returned discrete_sigma is strictly increasing and every value is
\* strictly between min_sigma and max_sigma.
C4_StrictlyBetween ==
    (TableReturned /\ ~Degenerate) =>
        /\ \A n \in 1..(Len(outcome.value.discrete_sigma) - 1) :
              FLt[outcome.value.discrete_sigma[n], outcome.value.discrete_sigma[n + 1]]
        /\ \A n \in 1..Len(outcome.value.discrete_sigma) :
              /\ FLt[call.min_sigma, outcome.value.discrete_sigma[n]]
              /\ FLt[outcome.value.discrete_sigma[n], call.max_sigma]

\* C4 amended: for 0 < min_sigma < max_sigma the returned discrete_sigma is
\* strictly increasing, every value is greater than min_sigma, and the last
\* and largest value is max_sigma up to rounding.
C4_IncreasingToMax ==
    (TableReturned /\ ValidSigmas /\ call.num_sigma >= 1) =>
        /\ Len(outcome.value.discrete_sigma) = call.num_sigma
        /\ \A n \in 1..(call.num_sigma - 1) :
              FLt[outcome.value.discrete_sigma[n], outcome.value.discrete_sigma[n + 1]]
        /\ \A n \in 1..call.num_sigma :
              FLt[call.min_sigma, outcome.value.discrete_sigma[n]]
        /\ Near(outcome.value.discrete_sigma[call.num_sigma], call.max_sigma)

\* two sigmas returned, the second equal to max_sigma
C4_Witness ==
    /\ TableReturned /\ ValidSigmas
    /\ call.num_sigma = 2
    /\ FLt[outcome.value.discrete_sigma[1], outcome.value.discrete_sigma[2]]
    /\ outcome.value.discrete_sigma[2] = call.max_sigma

\* C5: in a table returned for valid parameters every row of cdf is
\* non-decreasing along the omega axis.
C5_CdfNonDecreasing ==
    (TableReturned /\ ~Degenerate) =>
        \A s \in 1..Len(outcome.value.cdf) :
            \A k \in 1..(Len(outcome.value.cdf[s]) - 1) :
                FLe[outcome.value.cdf[s][k], outcome.value.cdf[s][k + 1]]

\* C6: a direct call of an angle-dependent function that evaluates the
\* series at omega = 0 ends with an error, not with a returned value.
C6_ZeroAngleFails ==
    (pc = "done" /\ call.op \in DirectOps /\ Zero \in passed) => outcome.kind = "raised"

\* C7: when a density whose logarithm d_logf_d_omega takes, at an angle other
\* than 0, is not finite or not positive, the call (the direct one, or the
\* table built from it) ends with the error NumericalInstability.
C7_InstabilitySurfaced ==
    (/\ pc = "done"
     /\ Zero \notin passed
     /\ \E i \in 1..Len(log_arg) : \E j \in 1..Len(log_arg[i]) : ~Healthy(log_arg[i][j]))
    => outcome = Raised("NumericalInstability")

\* C8: the omega grid has num_omega points, the k-th of them k pi / num_omega
\* (up to rounding) for k = 1..num_omega, so 0 is not a point and pi is the
\* last one; and every angle the table building has passed to
\* igso3_density_angle and d_logf_d_omega is greater than 0.
C8_OmegaGrid ==
    (InTable /\ discrete_omega # 0) =>
        /\ Len(tensors[discrete_omega].data) = call.num_omega
        /\ \A k \in 1..call.num_omega :
              /\ Near(tensors[discrete_omega].data[k],
                      FDiv[FMul[FromInt(k), FPi], FromInt(call.num_omega)])
              /\ IsPos(tensors[discrete_omega].data[k])
        /\ call.num_omega >= 1 => tensors[discrete_omega].data[call.num_omega] = FPi
        /\ \A w \in passed : IsPos(w)

\* a table over two angles is finished, and both angles were passed on
C8_Witness ==
    /\ InTable /\ pc = "done" /\ discrete_omega # 0
    /\ call.num_omega = 2
    /\ Cardinality(passed) = 2
    /\ Len(score_norm) >= 1

\* C9: cdf[s, k] is pi / num_omega times the sum of pdf_vals[s, j] for j up
\* to k (up to rounding), where pdf_vals[s, j] is igso3_density_angle at
\* discrete_omega[j] and discrete_sigma[s] squared; the first entry of a
\* row is pdf_vals[s, 0] pi / num_omega.
C9_CdfIsRiemannSum ==
    (InTable /\ cdf_vals # <<>>) =>
        /\ Len(cdf_vals) = Len(discrete_sigma)
        /\ \A s \in 1..Len(cdf_vals) :
              /\ pdf_vals[s] =
                    igso3_density_angle(tensors[discrete_omega].data,
                                        FMul[discrete_sigma[s], discrete_sigma[s]],
                                        L_default)
              /\ Len(cdf_vals[s]) = call.num_omega
              /\ \A k \in 1..Len(cdf_vals[s]) :
                    Same(cdf_vals[s][k],
                         FMul[FDiv[FPi, FromInt(call.num_omega)], SumSeq[pdf_vals[s], k]])
              /\ call.num_omega >= 1 =>
                    Same(cdf_vals[s][1],
                         FDiv[FMul[pdf_vals[s][1], FPi], FromInt(call.num_omega)])

\* a cdf over two angles whose second entry differs from the first
C9_Witness ==
    /\ InTable /\ cdf_vals # <<>>
    /\ call.num_omega = 2
    /\ Healthy(pdf_vals[1][1]) /\ Healthy(pdf_vals[1][2])
    /\ FLt[cdf_vals[1][1], cdf_vals[1][2]]

\* C10: d_logf_d_omega leaves the tensor it is given as it was, data and
\* gradient flag; while the table is built the omega grid stays the grid of
\* the first step, and the discrete_omega returned is that grid.
C10_OmegaUntouched ==
    /\ (pc = "done" /\ call.op = "d_logf_d_omega") =>
          tensors = <<[data |-> call.omega, requires_grad |-> FALSE]>>
    /\ (InTable /\ discrete_omega # 0) =>
          tensors = <<[data |-> omega_grid(call.num_omega), requires_grad |-> FALSE]>>
    /\ (InTable /\ pc = "done" /\ call.num_sigma >= 1) =>
          /\ outcome.kind = "returned"
          /\ outcome.value.discrete_omega = omega_grid(call.num_omega)

\* a table returned after two pdf rows and two score rows over the grid
C10_Witness ==
    /\ TableReturned
    /\ Len(pdf_vals) = 2 /\ Len(score_norm) = 2 /\ Len(log_arg) = 2
    /\ Len(outcome.value.discrete_omega) = 2
    /\ ~tensors[discrete_omega].requires_grad

=============================================================================
